---------------------------- MODULE Spec2Model ----------------------------
(***************************************************************************)
(* KPI engine of the Prosacco supply chain analytics project               *)
(* (src/analytics/kpi.py): compute_kpis and its helpers.                   *)
(*                                                                         *)
(* The three input tables are sets of rows.  Quantities are non-negative   *)
(* integers, the floating point values the code computes from them are     *)
(* exact rationals [kind, num, den] kept in lowest terms, with the two      *)
(* special values NaN and Inf of the code.  Dates are day numbers counted  *)
(* from the Monday of ISO week 1, NaT is the missing date.                 *)
(***************************************************************************)
EXTENDS Integers, Sequences, FiniteSets, TLC

\* ------------------------------------------------------------- bounds ---
MaxQty == 2
MaxWeek == 2
MaxRows == 3

\* ---------------------------------------------------------- constants ---
DaysPerWeek == 7
FillRateDigits == 4
OtifDigits == 4
DaysCoverDigits == 2

NaT == 0
\* the Monday of week w, as a day number
Monday(w) == DaysPerWeek * (w - 1) + 1

\* ------------------------------------------------------------ numbers ---
Min(a, b) == IF a <= b THEN a ELSE b
Max(a, b) == IF a >= b THEN a ELSE b

RECURSIVE Gcd(_, _)
Gcd(a, b) == IF b = 0 THEN a ELSE Gcd(b, a % b)

RECURSIVE Pow10(_)
Pow10(n) == IF n = 0 THEN 1 ELSE 10 * Pow10(n - 1)

NaN == [kind |-> "nan", num |-> 0, den |-> 1]
Inf == [kind |-> "inf", num |-> 0, den |-> 1]
\* n / d for n >= 0, d > 0, in lowest terms
Rat(n, d) == LET g == Gcd(n, d) IN [kind |-> "num", num |-> n \div g, den |-> d \div g]
IsNaN(x) == x.kind = "nan"
IsFinite(x) == x.kind = "num"
Leq(x, y) == x.num * y.den <= y.num * x.den

\* x * n for an integer n >= 0 (inf * 0 is nan in floating point)
Times(x, n) ==
    CASE x.kind = "nan" -> NaN
      [] x.kind = "inf" -> IF n = 0 THEN NaN ELSE Inf
      [] OTHER -> Rat(x.num * n, x.den)

\* x / n for an integer n > 0
Over(x, n) == IF x.kind = "num" THEN Rat(x.num, x.den * n) ELSE x

Plus(x, y) ==
    CASE x.kind = "nan" \/ y.kind = "nan" -> NaN
      [] x.kind = "inf" \/ y.kind = "inf" -> Inf
      [] OTHER -> Rat(x.num * y.den + y.num * x.den, x.den * y.den)

\* round(x, digits) of a finite x >= 0: to the nearest multiple of
\* 10^-digits, a tie going to the even one
Round(x, digits) ==
    LET scaled == x.num * Pow10(digits)
        q == scaled \div x.den
        r == scaled % x.den
        up == IF 2 * r > x.den THEN 1
              ELSE IF 2 * r = x.den THEN q % 2
              ELSE 0
    IN Rat(q + up, Pow10(digits))

\* ------------------------------------------------------------- tables ---
RECURSIVE SumField(_, _)
\* pandas' sum of column f over a set of rows
SumField(rows, f) ==
    IF rows = {} THEN 0
    ELSE LET r == CHOOSE x \in rows : TRUE
         IN r[f] + SumField(rows \ {r}, f)

\* Series.get(key, default)
Get(series, key, default) == IF key \in DOMAIN series THEN series[key] ELSE default

RECURSIVE SumSeries(_)
SumSeries(series) ==
    IF DOMAIN series = {} THEN 0
    ELSE LET k == CHOOSE x \in DOMAIN series : TRUE
         IN series[k] + SumSeries([j \in DOMAIN series \ {k} |-> series[j]])

IsoWeek(date) == ((date - 1) \div DaysPerWeek) + 1

RECURSIVE Sorted(_)
\* sorted(S) of a set of integers
Sorted(S) ==
    IF S = {} THEN << >>
    ELSE LET m == CHOOSE x \in S : \A y \in S : x <= y
         IN <<m>> \o Sorted(S \ {m})

_inventory_by_sku(inventory) ==
    [s \in {r.sku : r \in inventory} |->
        SumField({r \in inventory : r.sku = s}, "available")]

_demand_by_sku(orders) ==
    [s \in {r.sku : r \in orders} |->
        SumField({r \in orders : r.sku = s}, "qty_ord")]

_production_by_sku(production_long) ==
    [s \in {r.sku : r \in production_long} |->
        SumField({r \in production_long : r.sku = s}, "produced")]

_supply_by_week(production_long) ==
    [k \in {<<r.sku, r.week>> : r \in production_long} |->
        SumField({r \in production_long : r.sku = k[1] /\ r.week = k[2]}, "produced")]

\* orders.groupby(["sku", "expected_week"]): rows without a week are dropped
WeeklyDemand(orders) ==
    LET dated == {r \in orders : r.expected_date # NaT}
    IN [k \in {<<r.sku, IsoWeek(r.expected_date)>> : r \in dated} |->
          SumField({r \in dated : r.sku = k[1] /\ IsoWeek(r.expected_date) = k[2]},
                   "qty_ord")]

\* _demand_window_days with the span not counting its last day
DemandWindowDaysExclusive(orders) ==
    LET dated == {r \in orders : r.expected_date # NaT}
    IN [s \in {r.sku : r \in dated} |->
          LET days == {r.expected_date : r \in {x \in dated : x.sku = s}}
              hi == CHOOSE d \in days : \A e \in days : e <= d
              lo == CHOOSE d \in days : \A e \in days : d <= e
          IN Max(hi - lo, 1)]

_demand_window_days(orders) ==
    LET dated == {r \in orders : r.expected_date # NaT}
    IN [s \in {r.sku : r \in dated} |->
          LET days == {r.expected_date : r \in {x \in dated : x.sku = s}}
              hi == CHOOSE d \in days : \A e \in days : e <= d
              lo == CHOOSE d \in days : \A e \in days : d <= e
          IN Max(hi - lo + 1, 1)]

\* series.xs(sku, level=0), an empty series when the sku is not a key
Xs(series, sku) ==
    [w \in {k[2] : k \in {j \in DOMAIN series : j[1] = sku}} |-> series[<<sku, w>>]]


\* ------------------------------------------------ the OTIF simulation ---
\* OtifWeekStep with the cap taken on the cumulative demand: supply that
\* catches up later turns earlier late units into on-time units
OtifWeekStepRetroactive(st, week, demand_weekly, supply_weekly) ==
    LET cumulative_supply == st.cumulative_supply + Get(supply_weekly, week, 0)
        cumulative_demand == st.cumulative_demand + Get(demand_weekly, week, 0)
    IN [cumulative_demand |-> cumulative_demand,
        cumulative_supply |-> cumulative_supply,
        on_time_units |-> Min(cumulative_demand, cumulative_supply)]

\* OtifWeekStep without the cap at the cumulative supply
OtifWeekStepUncapped(st, week, demand_weekly, supply_weekly) ==
    [cumulative_demand |-> st.cumulative_demand + Get(demand_weekly, week, 0),
     cumulative_supply |-> st.cumulative_supply + Get(supply_weekly, week, 0),
     on_time_units |-> st.on_time_units + Get(demand_weekly, week, 0)]

\* one pass of the loop over the weeks (kpi.py lines 130-133)
OtifWeekStep(st, week, demand_weekly, supply_weekly) ==
    LET cumulative_supply == st.cumulative_supply + Get(supply_weekly, week, 0)
    IN [cumulative_demand |-> st.cumulative_demand + Get(demand_weekly, week, 0),
        cumulative_supply |-> cumulative_supply,
        on_time_units |-> Min(st.on_time_units + Get(demand_weekly, week, 0),
                              cumulative_supply)]

OtifStart(starting_inventory) ==
    [cumulative_demand |-> 0,
     cumulative_supply |-> starting_inventory,
     on_time_units |-> 0]

OtifWeeks(demand_weekly, supply_weekly) ==
    Sorted(DOMAIN demand_weekly \cup DOMAIN supply_weekly)

RECURSIVE OtifRun(_, _, _, _)
OtifRun(st, weeks, demand_weekly, supply_weekly) ==
    IF weeks = << >> THEN st
    ELSE OtifRun(OtifWeekStep(st, Head(weeks), demand_weekly, supply_weekly),
                 Tail(weeks), demand_weekly, supply_weekly)

\* the guard of the early return: total_demand <= 0
OtifNoDemand(demand_weekly) == SumSeries(demand_weekly) <= 0

\* the early return with 0.0 in place of 1.0
OtifEarlyReturnZero == Rat(0, 1)

\* the value of the early return
OtifEarlyReturn == Rat(1, 1)

\* the value returned after the loop
OtifRatio(on_time_units, demand_weekly) == Rat(on_time_units, SumSeries(demand_weekly))

_otif_ratio_for_sku(demand_weekly, supply_weekly, starting_inventory) ==
    IF OtifNoDemand(demand_weekly) THEN OtifEarlyReturn
    ELSE OtifRatio(OtifRun(OtifStart(starting_inventory),
                           OtifWeeks(demand_weekly, supply_weekly),
                           demand_weekly, supply_weekly).on_time_units,
                   demand_weekly)

\* ------------------------------------------------------- compute_kpis ---
SkuOrder == <<"A", "B">>

\* AllSkus without the SKUs that only the production plan names
AllSkusWithoutProduction(inventory, orders, production_long) ==
    LET present == DOMAIN _demand_by_sku(orders)
                   \cup DOMAIN _inventory_by_sku(inventory)
    IN SelectSeq(SkuOrder, LAMBDA s : s \in present)

\* sorted(set(demand) | set(inventory) | set(production))
AllSkus(inventory, orders, production_long) ==
    LET present == DOMAIN _demand_by_sku(orders)
                   \cup DOMAIN _inventory_by_sku(inventory)
                   \cup DOMAIN _production_by_sku(production_long)
    IN SelectSeq(SkuOrder, LAMBDA s : s \in present)

DemandTotal(orders, sku) == Get(_demand_by_sku(orders), sku, 0)
InventoryTotal(inventory, sku) == Get(_inventory_by_sku(inventory), sku, 0)
ProductionTotal(production_long, sku) == Get(_production_by_sku(production_long), sku, 0)
SupplyTotal(inventory, production_long, sku) ==
    InventoryTotal(inventory, sku) + ProductionTotal(production_long, sku)

\* FillRate without the cap at the demand
FillRateUncapped(supply_total, demand_total) ==
    IF demand_total <= 0 THEN NaN ELSE Rat(supply_total, demand_total)

FillRate(supply_total, demand_total) ==
    IF demand_total <= 0 THEN NaN
    ELSE Rat(Min(supply_total, demand_total), demand_total)

\* demand_window_days.get(sku): None is 0 here, and is falsy like it
WindowDays(orders, sku) == Get(_demand_window_days(orders), sku, 0)

DaysCover(demand_total, supply_total, window_days) ==
    LET avg_daily_demand == IF window_days # 0 THEN Rat(demand_total, window_days)
                            ELSE Rat(0, 1)
    IN IF avg_daily_demand.num <= 0
       THEN (IF supply_total > 0 THEN Inf ELSE NaN)
       ELSE Rat(supply_total * avg_daily_demand.den, avg_daily_demand.num)

\* the row appended to kpi_rows
KpiRow(sku, demand_total, supply_total, fill_rate, otif, days_cover) ==
    [SKU |-> sku,
     TotalDemand |-> demand_total,
     TotalSupply |-> supply_total,
     FillRate |-> IF ~IsNaN(fill_rate) THEN Round(fill_rate, FillRateDigits) ELSE NaN,
     OTIF |-> Round(otif, OtifDigits),
     DaysOfCover |-> IF IsFinite(days_cover) THEN Round(days_cover, DaysCoverDigits)
                     ELSE days_cover]

RECURSIVE SumColumn(_, _)
\* kpi_df[column].sum() of an integer column
SumColumn(rows, column) ==
    IF rows = << >> THEN 0
    ELSE Head(rows)[column] + SumColumn(Tail(rows), column)

RECURSIVE SumSkipNa(_)
\* Series.sum() of a float column: NaN entries are skipped
SumSkipNa(values) ==
    IF values = << >> THEN Rat(0, 1)
    ELSE IF IsNaN(Head(values)) THEN SumSkipNa(Tail(values))
    ELSE Plus(Head(values), SumSkipNa(Tail(values)))

\* .replace({np.inf: np.nan})
ReplaceInf(x) == IF x.kind = "inf" THEN NaN ELSE x

WeightedOtif(rows) ==
    LET overall_demand == SumColumn(rows, "TotalDemand")
    IN IF overall_demand > 0
       THEN Over(SumSkipNa([i \in 1..Len(rows) |->
                              Times(rows[i].OTIF, rows[i].TotalDemand)]),
                 overall_demand)
       ELSE NaN

WeightedDaysCover(rows) ==
    LET overall_demand == SumColumn(rows, "TotalDemand")
    IN IF overall_demand > 0
       THEN Over(SumSkipNa([i \in 1..Len(rows) |->
                              Times(ReplaceInf(rows[i].DaysOfCover),
                                    rows[i].TotalDemand)]),
                 overall_demand)
       ELSE NaN

OverallFillRate(rows) ==
    LET overall_demand == SumColumn(rows, "TotalDemand")
        overall_supply == SumColumn(rows, "TotalSupply")
    IN IF overall_demand > 0
       THEN Rat(Min(overall_supply, overall_demand), overall_demand)
       ELSE NaN

Totals(rows) ==
    [TotalDemand |-> SumColumn(rows, "TotalDemand"),
     TotalSupply |-> SumColumn(rows, "TotalSupply"),
     FillRate |-> OverallFillRate(rows),
     OTIF |-> WeightedOtif(rows),
     DaysOfCover |-> WeightedDaysCover(rows)]

\* the row of one SKU, computed in one go
KpiRowOf(inventory, orders, production_long, sku) ==
    LET demand_total == DemandTotal(orders, sku)
        supply_total == SupplyTotal(inventory, production_long, sku)
    IN KpiRow(sku, demand_total, supply_total,
              FillRate(supply_total, demand_total),
              _otif_ratio_for_sku(Xs(WeeklyDemand(orders), sku),
                                  Xs(_supply_by_week(production_long), sku),
                                  InventoryTotal(inventory, sku)),
              DaysCover(demand_total, supply_total, WindowDays(orders, sku)))

\* the totals compute_kpis returns for three tables (production not empty)
compute_kpis_totals(inventory, orders, production_long) ==
    LET skus == AllSkus(inventory, orders, production_long)
    IN Totals([i \in 1..Len(skus) |->
                 KpiRowOf(inventory, orders, production_long, skus[i])])

\* ------------------------------------------------------------- inputs ---
\* the rows a table can hold: quantities up to maxq, order dates on the
\* Monday of a week up to maxw or missing, production weeks up to maxw
InventoryRows(skus, maxq) == [sku : skus, available : 0..maxq]
OrderRows(skus, maxq, maxw) ==
    [sku : skus, qty_ord : 0..maxq,
     expected_date : {Monday(w) : w \in 1..maxw} \cup {NaT}]
ProductionRows(skus, maxq, maxw) == [sku : skus, week : 1..maxw, produced : 0..maxq]

Within(inv, ord, prod, skus, maxq, maxw) ==
    /\ inv \subseteq InventoryRows(skus, maxq)
    /\ ord \subseteq OrderRows(skus, maxq, maxw)
    /\ prod \subseteq ProductionRows(skus, maxq, maxw)

\* the tables explored: those of one SKU over the full ranges and those of
\* two SKUs over ranges one smaller, of at most MaxRows rows in all
Admissible(inv, ord, prod) ==
    /\ Cardinality(inv) + Cardinality(ord) + Cardinality(prod) <= MaxRows
    /\ \/ Within(inv, ord, prod, {"A"}, MaxQty, MaxWeek)
       \/ Within(inv, ord, prod, {"A", "B"}, MaxQty - 1, MaxWeek - 1)

\* ------------------------------------------------------ state machine ---
VARIABLES
    inventory, orders, production_long,   \* the arguments of compute_kpis
    pc,                  \* "loop", "sim" (inside _otif_ratio_for_sku), "done", "raised"
    todo,                \* the SKUs of all_skus the loop has not reached
    kpi_rows,
    sku, demand_total, inventory_total, supply_total, fill_rate, otif, days_cover,
    weeks,               \* the weeks the simulation has not reached
    cumulative_supply, cumulative_demand, on_time_units,
    totals

args == <<inventory, orders, production_long>>
locals == <<sku, demand_total, inventory_total, supply_total, fill_rate>>
sim == <<weeks, cumulative_supply, cumulative_demand, on_time_units>>
vars == <<args, pc, todo, kpi_rows, locals, otif, days_cover, sim, totals>>

demand_weeks == Xs(WeeklyDemand(orders), sku)
supply_weeks == Xs(_supply_by_week(production_long), sku)

Init ==
    /\ inventory = {}
    /\ orders = {}
    /\ production_long = {}
    /\ pc = "args"
    /\ todo = << >>
    /\ kpi_rows = << >>
    /\ sku = ""
    /\ demand_total = 0
    /\ inventory_total = 0
    /\ supply_total = 0
    /\ fill_rate = NaN
    /\ otif = NaN
    /\ days_cover = NaN
    /\ weeks = << >>
    /\ cumulative_supply = 0
    /\ cumulative_demand = 0
    /\ on_time_units = 0
    /\ totals = [TotalDemand |-> 0, TotalSupply |-> 0,
                 FillRate |-> NaN, OTIF |-> NaN, DaysOfCover |-> NaN]

state == <<pc, todo, kpi_rows, locals, otif, days_cover, sim, totals>>

\* the caller loads a row of the inventory snapshot
LoadInventoryRow ==
    /\ pc = "args"
    /\ \E r \in InventoryRows({"A", "B"}, MaxQty) :
          /\ r \notin inventory
          /\ Admissible(inventory \cup {r}, orders, production_long)
          /\ inventory' = inventory \cup {r}
    /\ UNCHANGED <<orders, production_long, state>>

\* the caller loads a row of the order report
LoadOrderRow ==
    /\ pc = "args"
    /\ \E r \in OrderRows({"A", "B"}, MaxQty, MaxWeek) :
          /\ r \notin orders
          /\ Admissible(inventory, orders \cup {r}, production_long)
          /\ orders' = orders \cup {r}
    /\ UNCHANGED <<inventory, production_long, state>>

\* the caller loads a row of the production plan
LoadProductionRow ==
    /\ pc = "args"
    /\ \E r \in ProductionRows({"A", "B"}, MaxQty, MaxWeek) :
          /\ r \notin production_long
          /\ Admissible(inventory, orders, production_long \cup {r})
          /\ production_long' = production_long \cup {r}
    /\ UNCHANGED <<inventory, orders, state>>

\* compute_kpis is called: lines 144-156, up to the head of the loop
Call ==
    /\ pc = "args"
    /\ todo' = AllSkus(inventory, orders, production_long)
    /\ pc' = "loop"
    /\ UNCHANGED <<args, kpi_rows, locals, otif, days_cover, sim, totals>>

\* lines 159-163 for the next SKU
EnterIteration(s) ==
    /\ sku' = s
    /\ todo' = Tail(todo)
    /\ demand_total' = DemandTotal(orders, s)
    /\ inventory_total' = InventoryTotal(inventory, s)
    /\ supply_total' = SupplyTotal(inventory, production_long, s)
    /\ fill_rate' = FillRate(SupplyTotal(inventory, production_long, s),
                             DemandTotal(orders, s))

\* lines 177-193 once _otif_ratio_for_sku has returned o
FinishIteration(s, o) ==
    /\ otif' = o
    /\ days_cover' = DaysCover(demand_total', supply_total', WindowDays(orders, s))
    /\ kpi_rows' = Append(kpi_rows,
                          KpiRow(s, demand_total', supply_total', fill_rate', o,
                                 days_cover'))
    /\ pc' = "loop"

\* an iteration whose call of _otif_ratio_for_sku returns early (line 123)
IterateNoDemand ==
    /\ pc = "loop"
    /\ production_long # {}
    /\ todo # << >>
    /\ OtifNoDemand(Xs(WeeklyDemand(orders), Head(todo)))
    /\ EnterIteration(Head(todo))
    /\ FinishIteration(Head(todo), OtifEarlyReturn)
    /\ UNCHANGED <<args, sim, totals>>

\* an iteration up to the head of the loop over the weeks (lines 125-128)
IterateSimulate ==
    /\ pc = "loop"
    /\ production_long # {}
    /\ todo # << >>
    /\ ~OtifNoDemand(Xs(WeeklyDemand(orders), Head(todo)))
    /\ EnterIteration(Head(todo))
    /\ weeks' = OtifWeeks(Xs(WeeklyDemand(orders), Head(todo)),
                          Xs(_supply_by_week(production_long), Head(todo)))
    /\ cumulative_supply' = OtifStart(inventory_total').cumulative_supply
    /\ cumulative_demand' = OtifStart(inventory_total').cumulative_demand
    /\ on_time_units' = OtifStart(inventory_total').on_time_units
    /\ pc' = "sim"
    /\ UNCHANGED <<args, kpi_rows, otif, days_cover, totals>>

\* one week of the simulation (lines 130-133)
OtifWeek ==
    /\ pc = "sim"
    /\ weeks # << >>
    /\ LET st == OtifWeekStep([cumulative_demand |-> cumulative_demand,
                               cumulative_supply |-> cumulative_supply,
                               on_time_units |-> on_time_units],
                              Head(weeks), demand_weeks, supply_weeks)
       IN /\ cumulative_demand' = st.cumulative_demand
          /\ cumulative_supply' = st.cumulative_supply
          /\ on_time_units' = st.on_time_units
    /\ weeks' = Tail(weeks)
    /\ UNCHANGED <<args, pc, todo, kpi_rows, locals, otif, days_cover, totals>>

\* the simulation returns (line 135) and the iteration ends
OtifReturn ==
    /\ pc = "sim"
    /\ weeks = << >>
    /\ UNCHANGED locals
    /\ FinishIteration(sku, OtifRatio(on_time_units, demand_weeks))
    /\ UNCHANGED <<args, todo, sim, totals>>

\* lines 195-215
ComputeTotals ==
    /\ pc = "loop"
    /\ production_long # {}
    /\ todo = << >>
    /\ totals' = Totals(kpi_rows)
    /\ pc' = "done"
    /\ UNCHANGED <<args, todo, kpi_rows, locals, otif, days_cover, sim>>

\* An empty production table makes _supply_by_week return a series without
\* a MultiIndex: xs(sku, level=0) raises TypeError (line 171), which the
\* except KeyError does not catch; with no SKU at all set_index("SKU")
\* raises KeyError on the empty frame (line 195).
RaiseError ==
    /\ pc = "loop"
    /\ production_long = {}
    /\ pc' = "raised"
    /\ UNCHANGED <<args, todo, kpi_rows, locals, otif, days_cover, sim, totals>>

Next ==
    \/ LoadInventoryRow
    \/ LoadOrderRow
    \/ LoadProductionRow
    \/ Call
    \/ IterateNoDemand
    \/ IterateSimulate
    \/ OtifWeek
    \/ OtifReturn
    \/ ComputeTotals
    \/ RaiseError

Spec == Init /\ [][Next]_vars

\* ------------------------------------------------------------- claims ---
\* an iteration of the loop over all_skus has just ended for sku
IterationDone == pc \in {"loop", "done"} /\ sku # ""

InUnit(x) == IsFinite(x) /\ 0 <= x.num /\ x.num <= x.den

DatedOrders(s) == {r \in orders : r.sku = s /\ r.expected_date # NaT}
UndatedOrders(s) == {r \in orders : r.sku = s /\ r.expected_date = NaT}

\* what the weekly simulation leaves in on_time_units for SKU s
OnTimeUnits(s) ==
    OtifRun(OtifStart(InventoryTotal(inventory, s)),
            OtifWeeks(Xs(WeeklyDemand(orders), s), Xs(_supply_by_week(production_long), s)),
            Xs(WeeklyDemand(orders), s),
            Xs(_supply_by_week(production_long), s)).on_time_units

\* the otif of SKU s before it is rounded for the table
OtifOf(s) ==
    _otif_ratio_for_sku(Xs(WeeklyDemand(orders), s),
                        Xs(_supply_by_week(production_long), s),
                        InventoryTotal(inventory, s))

\* the days of cover of SKU s before it is rounded for the table
DaysCoverOf(s) ==
    DaysCover(DemandTotal(orders, s), SupplyTotal(inventory, production_long, s),
              WindowDays(orders, s))

RECURSIVE SumRats(_)
SumRats(values) ==
    IF values = << >> THEN Rat(0, 1) ELSE Plus(Head(values), SumRats(Tail(values)))

\* C1: every SKU's otif is on_time_units / total_demand when total_demand > 0,
\* total_demand being the sum of quantity_ordered over ALL the SKU's orders
\* and on_time_units the result of the simulation over the dated orders, and
\* is 1.0 only when total_demand = 0.
C1_OtifOverTotalDemand ==
    IterationDone =>
        otif = IF demand_total > 0 THEN Rat(OnTimeUnits(sku), demand_total)
               ELSE Rat(1, 1)

\* C2: in the simulation the late units (cumulative_demand - on_time_units)
\* never decrease from one week to the next; after every week on_time_units
\* is at most cumulative_supply and has grown by at most that week's demand.
C2_LateUnitsNeverDecrease ==
    [][OtifWeek =>
         /\ cumulative_demand' - on_time_units' >= cumulative_demand - on_time_units
         /\ on_time_units' <= cumulative_supply'
         /\ on_time_units' - on_time_units <= cumulative_demand' - cumulative_demand]_vars

\* the late-supply scenario: demand due in week 1, nothing on hand, the
\* production that covers it arrives in week 2, and otif is 0 with fill rate 1
C2_LateSupplyWitness ==
    /\ IterationDone
    /\ inventory_total = 0
    /\ DOMAIN demand_weeks = {1}
    /\ DOMAIN supply_weeks = {2}
    /\ supply_weeks[2] >= demand_weeks[1]
    /\ demand_weeks[1] > 0
    /\ otif = Rat(0, 1)
    /\ fill_rate = Rat(1, 1)

\* C3: every SKU's otif lies in [0, 1] and is exactly 1.0 when the SKU has
\* zero demand; the overall OTIF lies in [0, 1] whenever overall_demand > 0.
C3_OtifInUnitInterval ==
    /\ IterationDone => InUnit(otif) /\ (demand_total = 0 => otif = Rat(1, 1))
    /\ \A i \in 1..Len(kpi_rows) : InUnit(kpi_rows[i].OTIF)
    /\ (pc = "done" /\ totals.TotalDemand > 0) => InUnit(totals.OTIF)

\* a SKU whose demand is met on time only in part: its otif and the overall
\* OTIF are strictly between 0 and 1
C3_PartialOtifWitness ==
    /\ pc = "done"
    /\ totals.TotalDemand > 0
    /\ 0 < totals.OTIF.num /\ totals.OTIF.num < totals.OTIF.den
    /\ 0 < otif.num /\ otif.num < otif.den

\* C4: a SKU with total_demand > 0 has 0 <= fill_rate <= 1, and fill_rate = 1
\* whenever total_supply >= total_demand; a SKU with total_demand = 0 has an
\* undefined fill rate (not zero); the overall fill rate lies in [0, 1]
\* whenever overall_demand > 0.
C4_FillRateBounds ==
    /\ IterationDone =>
         /\ demand_total > 0 =>
              /\ InUnit(fill_rate)
              /\ supply_total >= demand_total => fill_rate = Rat(1, 1)
         /\ demand_total = 0 => IsNaN(fill_rate)
    /\ \A i \in 1..Len(kpi_rows) :
         /\ kpi_rows[i].TotalDemand > 0 =>
              /\ InUnit(kpi_rows[i].FillRate)
              /\ kpi_rows[i].TotalSupply >= kpi_rows[i].TotalDemand
                   => kpi_rows[i].FillRate = Rat(1, 1)
         /\ kpi_rows[i].TotalDemand = 0 => IsNaN(kpi_rows[i].FillRate)
    /\ (pc = "done" /\ totals.TotalDemand > 0) => InUnit(totals.FillRate)

\* a SKU supplied beyond its demand: its fill rate is capped at 1
C4_SurplusWitness ==
    /\ pc = "done"
    /\ demand_total > 0
    /\ supply_total > demand_total
    /\ fill_rate = Rat(1, 1)
    /\ totals.FillRate = Rat(1, 1)

WithoutSku(rows, s) == {r \in rows : r.sku # s}

\* C5: adding a SKU whose total demand is zero leaves every aggregate metric
\* of totals unchanged: overall fill rate, overall OTIF and overall days of
\* cover are those of the tables without that SKU.
C5_ZeroDemandSkuChangesNothing ==
    pc = "done" =>
        \A i \in 1..Len(kpi_rows) :
            LET s == kpi_rows[i].SKU
                without == compute_kpis_totals(WithoutSku(inventory, s),
                                               WithoutSku(orders, s),
                                               WithoutSku(production_long, s))
            IN (kpi_rows[i].TotalDemand = 0 /\ WithoutSku(production_long, s) # {}) =>
                 /\ totals.FillRate = without.FillRate
                 /\ totals.OTIF = without.OTIF
                 /\ totals.DaysOfCover = without.DaysOfCover

\* C6: when overall_demand > 0 the overall OTIF is the sum of
\* otif(sku) * total_demand(sku) over the sum of total_demand(sku), taken
\* from the full-precision per-SKU otif; it is undefined otherwise.
C6_OverallOtifFullPrecision ==
    pc = "done" =>
        IF totals.TotalDemand > 0
        THEN totals.OTIF =
               Over(SumRats([i \in 1..Len(kpi_rows) |->
                               Times(OtifOf(kpi_rows[i].SKU), kpi_rows[i].TotalDemand)]),
                    totals.TotalDemand)
        ELSE IsNaN(totals.OTIF)

\* C7: days_of_cover is total_supply / avg_daily_demand when avg_daily_demand
\* = total_demand / window_days is positive, window_days being the inclusive
\* span in days (at least 1) of the SKU's dated orders; with avg_daily_demand
\* 0 (no window, or no demand) it is +infinity when total_supply > 0 and
\* undefined when total_supply = 0.  Hence a SKU with no demand and a positive
\* supply has an undefined fill rate, otif 1.0 and infinite days of cover.
C7_DaysOfCoverCases ==
    IterationDone =>
        LET days == {r.expected_date : r \in DatedOrders(sku)}
            hi == CHOOSE d \in days : \A e \in days : e <= d
            lo == CHOOSE d \in days : \A e \in days : d <= e
            window_days == Max(hi - lo + 1, 1)
        IN /\ (days # {} /\ demand_total > 0) =>
                days_cover = Rat(supply_total * window_days, demand_total)
           /\ (days = {} \/ demand_total = 0) =>
                days_cover = IF supply_total > 0 THEN Inf ELSE NaN
           /\ (demand_total = 0 /\ supply_total > 0) =>
                IsNaN(fill_rate) /\ otif = Rat(1, 1) /\ days_cover = Inf

\* orders due on two different days, and a supply: a finite, positive cover
C7_WindowWitness ==
    /\ IterationDone
    /\ Cardinality({r.expected_date : r \in DatedOrders(sku)}) = 2
    /\ demand_total > 0
    /\ IsFinite(days_cover)
    /\ days_cover.num > 0

\* C8: when overall_demand > 0 the overall days of cover is the sum of
\* days_of_cover(sku) * total_demand(sku) over the SKUs whose days of cover
\* is finite, over overall_demand; a SKU whose days of cover is infinite or
\* undefined adds nothing; it is undefined when overall_demand = 0.
C8_OverallDaysOfCover ==
    pc = "done" =>
        IF totals.TotalDemand > 0
        THEN totals.DaysOfCover =
               Over(SumRats([i \in 1..Len(kpi_rows) |->
                               IF IsFinite(DaysCoverOf(kpi_rows[i].SKU))
                               THEN Times(DaysCoverOf(kpi_rows[i].SKU),
                                          kpi_rows[i].TotalDemand)
                               ELSE Rat(0, 1)]),
                    totals.TotalDemand)
        ELSE IsNaN(totals.DaysOfCover)

SkusOf(rows) == {r.sku : r \in rows}
RowsOf(rows, s) == {r \in rows : r.sku = s}

\* C9: the table has exactly one row for each SKU of the union of the SKUs
\* of the three tables; its total_supply is the sum of available over the
\* SKU's inventory rows plus the sum of produced over its production rows,
\* its total_demand the sum of quantity_ordered over its order rows; the
\* totals' Total Demand and Total Supply are the sums of these columns.
C9_OneRowPerSku ==
    pc = "done" =>
        LET all == SkusOf(inventory) \cup SkusOf(orders) \cup SkusOf(production_long)
        IN /\ {kpi_rows[i].SKU : i \in 1..Len(kpi_rows)} = all
           /\ Len(kpi_rows) = Cardinality(all)
           /\ \A i \in 1..Len(kpi_rows) :
                LET s == kpi_rows[i].SKU
                IN /\ kpi_rows[i].TotalSupply =
                        SumField(RowsOf(inventory, s), "available")
                        + SumField(RowsOf(production_long, s), "produced")
                   /\ kpi_rows[i].TotalDemand = SumField(RowsOf(orders, s), "qty_ord")
           /\ totals.TotalDemand = SumColumn(kpi_rows, "TotalDemand")
           /\ totals.TotalSupply = SumColumn(kpi_rows, "TotalSupply")

\* a SKU with two inventory rows, and a SKU that only the production plan
\* names and nobody orders
C9_UnionWitness ==
    /\ pc = "done"
    /\ Len(kpi_rows) = 2
    /\ \E s \in SkusOf(inventory) : Cardinality(RowsOf(inventory, s)) = 2
    /\ \E s \in SkusOf(production_long) :
          /\ s \notin SkusOf(orders) \cup SkusOf(inventory)
          /\ SumField(RowsOf(production_long, s), "produced") > 0

\* C10: otif <= fill_rate is not an invariant: a SKU with total_demand > 0
\* can have an otif strictly above its fill rate (C10_OtifAboveFillRate is
\* such a state).  It happens only to a SKU with orders that lack an expected
\* week: they count in the fill rate's demand and not in the otif's.
C10_OtifAboveFillRateOnlyUndated ==
    (IterationDone /\ demand_total > 0 /\ ~Leq(otif, fill_rate)) =>
        SumField(UndatedOrders(sku), "qty_ord") > 0

\* supply that is there when the dated demand is due, all of it on time, and
\* an otif above the fill rate
C10_OtifAboveFillRate ==
    /\ IterationDone
    /\ demand_total > 0
    /\ on_time_units > 0
    /\ on_time_units = cumulative_demand
    /\ ~Leq(otif, fill_rate)

=============================================================================
